---------------------------- MODULE Spec2Model ----------------------------
(***************************************************************************)
(* A model of the p2p file-sharing node of src/index.js and of its second  *)
(* build src/unnamed/part_000: the peer directory (networkNodes), the file *)
(* catalog (networkFiles), the set connectedPeers, the event listeners     *)
(* (peer:discovery, peer:connect, the 'file-share' subscription), the HTTP *)
(* handlers (POST /share, GET /network-status, GET /download) and the      *)
(* helper dialWithRetry.                                                   *)
(*                                                                         *)
(* Every async handler is cut at its awaits: the code between two awaits   *)
(* runs to completion on the single JavaScript thread and is one action;   *)
(* a handler suspended at an await is a frame in a bag.                    *)
(*                                                                         *)
(* Every record lists its fields in the order in which the names first    *)
(* occur in this module, the order in which TLC keeps a record's fields.   *)
(*                                                                         *)
(* Not modelled: the Date.now() stamps lastSeen and lastConnectionAttempt  *)
(* (written, never read by the code), console output, and the libp2p       *)
(* stack itself, whose events and promise outcomes are the environment.    *)
(***************************************************************************)
EXTENDS Integers, Sequences, FiniteSets, Bags, TLC

(***************************************************************************)
(* Bounds of the model.                                                    *)
(***************************************************************************)
\* the most hosting-peer records (entries of the peers lists) the catalog holds
MaxHosts == 2
\* the most handlers suspended at an await at the same time
MaxPending == 2
\* the largest connectionAttempts the model counts up to
MaxAttempts == 2

\* node.peerId.toString() of this process, and the ids of the other peers
LocalId == "n0"
RemotePeers == {"p1", "p2"}
PeerIds == {LocalId} \cup RemotePeers
\* the peers that discovery reports and that connect; the others are reached
\* through them and only their announcements arrive
Neighbours == {"p1"}
\* req.file.filename / data.filename
Filenames == {"a.txt", "b.txt"}
\* req.file.size / data.size
Sizes == {10, 20}
\* Date.now() / data.timestamp
Timestamps == {1, 2}
\* the size of the file a user uploads under a name, and the clock at start
FileSize(f) == IF f = "a.txt" THEN 10 ELSE 20
FirstTime == CHOOSE t \in Timestamps : \A u \in Timestamps : t <= u
\* the address lists the peer store can hold for a peer
AddrLists == { <<>>, <<"/ip4/10.0.0.1/tcp/9001">> }

\* JavaScript's undefined, as a string-valued field holds it
Undefined == "undefined"
\* the values of a numeric field: a number, undefined or NaN
Num(n) == [t |-> "number", v |-> n]
UndefinedNum == [t |-> "undefined", v |-> 0]
NaN == [t |-> "NaN", v |-> 0]

\* the two builds of the node: src/index.js and src/unnamed/part_000
Builds == {"index.js", "part_000"}

VARIABLES
    build,          \* which of the two builds runs
    networkFiles,   \* Map filename -> {...data, peers: [{peerId, timestamp}]}
    networkNodes,   \* Map peer id -> reference to a node record object
    heap,           \* the node record objects, by reference
    nodeFiles,      \* the files Set object of each peer id in networkNodes
    connectedPeers, \* Set of peer ids
    sharedDir,      \* the file names stored in ./shared
    discovering,    \* bag of peer:discovery handler frames suspended at an await
    connecting,     \* bag of peer:connect handler frames suspended at peerStore.get
    sharing,        \* bag of POST /share handler frames suspended at publish
    obs,            \* what the last step showed: the event handled or the HTTP response
    \* one call of dialWithRetry(peerId, addresses, maxRetries)
    maxRetries,     \* the argument maxRetries
    addresses,      \* the argument addresses, each a multiaddr
    pc,             \* where the call is
    i,              \* the loop variable of  for (let i = 0; i < maxRetries; i++)
    k,              \* the position of  for (const addr of addresses)
    lastError,      \* the local lastError
    caught,         \* err of the outer catch block
    result,         \* the value the call's promise settles with
    delay,          \* the last backoff delay, in ms
    rounds,         \* how many times the body of the outer loop was entered
    waits,          \* how many backoff waits were started
    dials           \* the node.dial calls made, in order: [ma, ok, err]

nodeVars == <<build, networkFiles, networkNodes, heap, nodeFiles, connectedPeers,
              sharedDir, discovering, connecting, sharing>>
dialVars == <<maxRetries, addresses, pc, i, k, lastError, caught, result, delay,
              rounds, waits, dials>>
vars == <<nodeVars, obs, dialVars>>

(***************************************************************************)
(* Helpers.                                                                *)
(***************************************************************************)
Range(f) == {f[x] : x \in DOMAIN f}

\* the elements of a finite set in some order
RECURSIVE SetToSeq(_)
SetToSeq(S) == IF S = {} THEN << >>
               ELSE LET x == CHOOSE y \in S : TRUE IN <<x>> \o SetToSeq(S \ {x})

\* gossipsub({emitSelf: true}) in part_000, gossipsub() in index.js
EmitSelf == build = "part_000"

\* a reference not used by heap h
NewRef(h) == CHOOSE n \in 1..(Cardinality(DOMAIN h) + 1) : n \notin DOMAIN h

\* the objects still referenced by the map or by a suspended discovery handler
Live(nn, disc) == Range(nn) \cup {fr.peerInfo : fr \in BagToSet(disc)}
Collect(h, nn, disc) == [o \in Live(nn, disc) |-> h[o]]

\* the handlers suspended at an await
PendingCount == BagCardinality(discovering) + BagCardinality(connecting)
                    + BagCardinality(sharing)

\* Map.prototype.set
MapSet(m, key, v) == [x \in DOMAIN m \cup {key} |-> IF x = key THEN v ELSE m[x]]

\* x++ on a field that may hold undefined or NaN
Increment(x) == IF x.t = "number" THEN Num(x.v + 1) ELSE NaN

\* networkNodes.get(p), seen as the record with its files Set
NodeInfo(p) == [lastError |-> heap[networkNodes[p]].lastError,
                id |-> heap[networkNodes[p]].id, files |-> nodeFiles[p],
                address |-> heap[networkNodes[p]].address,
                isLocal |-> heap[networkNodes[p]].isLocal,
                status |-> heap[networkNodes[p]].status,
                connectionAttempts |-> heap[networkNodes[p]].connectionAttempts]

(***************************************************************************)
(* Announcements: msg = [from, data], data the bytes of the payload.       *)
(***************************************************************************)
\* the file announcements a payload can carry
FileInfos == [type : {"file-available"}, filename : Filenames, size : Sizes,
              timestamp : Timestamps, nodeId : RemotePeers]
\* objects of another type, as announceNode would publish them
OtherInfos == [type : {"node-announce"}, filename : Filenames, size : {FileSize("a.txt")},
               timestamp : {FirstTime}, nodeId : {LocalId}]

\* JSON.stringify of an announcement object
JSONstringify(o) == [type |-> o.type, filename |-> o.filename, size |-> o.size,
                     timestamp |-> o.timestamp, nodeId |-> o.nodeId, kind |-> "object"]

\* payloads: bytes that are no JSON, the JSON text null, a JSON object
NotJSON == [kind |-> "bytes"]
JSONnull == [kind |-> "null"]
Payloads == {NotJSON, JSONnull} \cup {JSONstringify(o) : o \in FileInfos \cup OtherInfos}

\* JSON.parse throws a SyntaxError on bytes that are no JSON
JSONparseThrows(d) == d.kind = "bytes"
\* JSON.parse of an object payload
JSONparse(d) == [type |-> d.type, filename |-> d.filename, size |-> d.size,
                 timestamp |-> d.timestamp, nodeId |-> d.nodeId]

Messages == [from : PeerIds, data : Payloads]

\* the try block of the handler throws: JSON.parse fails, or data is null and
\* data.type is a TypeError
HandlerThrows(msg) == JSONparseThrows(msg.data) \/ msg.data.kind = "null"

\* HandlerAccepts without the test of data.type
AcceptsAnyType(msg) == ~HandlerThrows(msg)

\* the handler reaches the body of  if (data.type === 'file-available')
HandlerAccepts(msg) ==
    /\ ~HandlerThrows(msg)
    /\ JSONparse(msg.data).type = "file-available"

\* how the handler ends: in its catch block, past the if, or after the merge
HandlerOutcome(msg) ==
    IF HandlerThrows(msg) THEN "caught"
    ELSE IF HandlerAccepts(msg) THEN "merged" ELSE "ignored"

\* networkFiles.get(f)?.peers || []
PeersOf(nf, f) == IF f \in DOMAIN nf THEN nf[f].peers ELSE <<>>

\* networkFiles.set(data.filename, {...data, peers: [...old, peerInfo]})
MergeFile(nf, from, data) ==
    LET peerInfo == [timestamp |-> data.timestamp, peerId |-> from]
    IN  MapSet(nf, data.filename,
               [type |-> data.type, filename |-> data.filename, size |-> data.size,
                timestamp |-> data.timestamp, nodeId |-> data.nodeId,
                peers |-> Append(PeersOf(nf, data.filename), peerInfo)])

\* the hosting records of the whole catalog
RECURSIVE SumLen(_, _)
SumLen(nf, fs) == IF fs = {} THEN 0
                  ELSE LET f == CHOOSE x \in fs : TRUE
                       IN  Len(nf[f].peers) + SumLen(nf, fs \ {f})
HostCount(nf) == SumLen(nf, DOMAIN nf)

\* nodeInfo = networkNodes.get(msg.from); if (nodeInfo) nodeInfo.files.add(filename)
AddFileToNode(nfiles, from, filename) ==
    IF from \in DOMAIN nfiles
    THEN [nfiles EXCEPT ![from] = @ \cup {filename}]
    ELSE nfiles

\* the whole subscription handler on the catalog
HandleFiles(nf, msg) ==
    IF HandlerAccepts(msg) THEN MergeFile(nf, msg.from, JSONparse(msg.data)) ELSE nf

\* the whole subscription handler on the files Sets of the directory
HandleNodeFiles(nfiles, msg) ==
    IF HandlerAccepts(msg)
    THEN AddFileToNode(nfiles, msg.from, JSONparse(msg.data).filename)
    ELSE nfiles

(***************************************************************************)
(* Initial state: startNode has run up to node.start().                    *)
(***************************************************************************)
LocalRecord == [lastError |-> Undefined, id |-> LocalId, address |-> <<"/webrtc">>,
                isLocal |-> TRUE, status |-> "active",
                connectionAttempts |-> UndefinedNum]

NodeInit ==
    /\ build \in Builds
    /\ networkFiles = << >>
    /\ heap = [o \in {1} |-> LocalRecord]
    /\ networkNodes = [p \in {LocalId} |-> 1]
    /\ nodeFiles = [p \in {LocalId} |-> {}]
    /\ connectedPeers = {}
    /\ sharedDir = {}
    /\ discovering = EmptyBag
    /\ connecting = EmptyBag
    /\ sharing = EmptyBag

\* no call of dialWithRetry: the node never calls it
NoDial ==
    /\ maxRetries = 0
    /\ addresses = << >>
    /\ pc = "idle"
    /\ i = 0
    /\ k = 0
    /\ lastError = Undefined
    /\ caught = Undefined
    /\ result = Undefined
    /\ delay = 0
    /\ rounds = 0
    /\ waits = 0
    /\ dials = << >>

Init ==
    /\ NodeInit
    /\ obs = [op |-> "start"]
    /\ NoDial

(***************************************************************************)
(* The 'file-share' subscription handler.                                  *)
(***************************************************************************)
FileShare(msg) ==
    /\ HandlerAccepts(msg) => HostCount(networkFiles) < MaxHosts
    /\ networkFiles' = HandleFiles(networkFiles, msg)
    /\ nodeFiles' = HandleNodeFiles(nodeFiles, msg)
    /\ obs' = [msg |-> msg, op |-> "file-share", outcome |-> HandlerOutcome(msg)]
    /\ UNCHANGED <<dialVars, build, networkNodes, heap, connectedPeers, sharedDir,
                   discovering, connecting, sharing>>

\* a message another peer published reaches the subscription
Announcement ==
    \E from \in RemotePeers, data \in Payloads : FileShare([from |-> from, data |-> data])

\* the same, from a neighbour that announces its files as they are
NeighbourAnnouncement ==
    \E from \in Neighbours, f \in Filenames :
        FileShare([from |-> from,
                   data |-> JSONstringify([type |-> "file-available", filename |-> f,
                                           size |-> FileSize(f), timestamp |-> FirstTime,
                                           nodeId |-> from])])

(***************************************************************************)
(* The peer:discovery listener.                                            *)
(***************************************************************************)
\* DiscoveredRecord with the node's own id in place of the peer's
DiscoveredRecordAsLocal(p) == [lastError |-> Undefined, id |-> LocalId, address |-> <<>>,
                               isLocal |-> FALSE, status |-> "discovered",
                               connectionAttempts |-> Num(0)]

\* the record the listener creates for a peer it has no record of
DiscoveredRecord(p) == [lastError |-> Undefined, id |-> p, address |-> <<>>,
                        isLocal |-> FALSE, status |-> "discovered",
                        connectionAttempts |-> Num(0)]

\* the catch block: peerInfo.connectionAttempts++, peerInfo.lastError = err.message
RecordFailure(h, o, err) ==
    [h EXCEPT ![o].connectionAttempts = Increment(@), ![o].lastError = err]

\* the error messages of a rejected peerStore.get and of a rejected dial
PeerStoreError == "peer not found"
DialError == "dial failed"

\* the event arrives: the code up to  await node.peerStore.get(evt.detail.id)
DiscoveryEvent(p) ==
    /\ PendingCount < MaxPending
    /\ LET o == IF p \in DOMAIN networkNodes THEN networkNodes[p] ELSE NewRef(heap)
       IN  /\ heap' = IF p \in DOMAIN networkNodes THEN heap
                      ELSE MapSet(heap, o, DiscoveredRecord(p))
           /\ networkNodes' = MapSet(networkNodes, p, o)
           /\ nodeFiles' = IF p \in DOMAIN networkNodes THEN nodeFiles
                           ELSE MapSet(nodeFiles, p, {})
           /\ discovering' = discovering (+)
                  SetToBag({[peerInfo |-> o, peerId |-> p, at |-> "peerStore.get"]})
    /\ obs' = [peerId |-> p, op |-> "peer:discovery"]
    /\ UNCHANGED <<dialVars, build, networkFiles, connectedPeers, sharedDir, connecting, sharing>>

\* the handler ends: networkNodes.set(peerId, peerInfo), after the catch block
\* when failed
DiscoveryEnd(fr, failed, err) ==
    /\ failed /\ heap[fr.peerInfo].connectionAttempts.t = "number"
         => heap[fr.peerInfo].connectionAttempts.v < MaxAttempts
    /\ LET h1 == IF failed THEN RecordFailure(heap, fr.peerInfo, err) ELSE heap
           nn == MapSet(networkNodes, fr.peerId, fr.peerInfo)
           left == discovering (-) SetToBag({fr})
       IN  /\ networkNodes' = nn
           /\ discovering' = left
           /\ heap' = Collect(h1, nn, left)
    /\ obs' = [peerId |-> fr.peerId, op |-> "peer:discovery done", failed |-> failed]
    /\ UNCHANGED <<dialVars, build, networkFiles, nodeFiles, connectedPeers, sharedDir,
                   connecting, sharing>>

\* node.peerStore.get resolves with the addresses addrs
DiscoveryPeerStoreResolves(fr, addrs) ==
    /\ BagIn(fr, discovering) /\ fr.at = "peerStore.get"
    /\ IF Len(addrs) > 0
       THEN /\ discovering' = (discovering (-) SetToBag({fr}))
                                 (+) SetToBag({[fr EXCEPT !.at = "dial"]})
            /\ obs' = [peerId |-> fr.peerId, op |-> "dial", ma |-> addrs[1]]
            /\ UNCHANGED <<dialVars, build, networkFiles, networkNodes, heap, nodeFiles,
                           connectedPeers, sharedDir, connecting, sharing>>
       ELSE DiscoveryEnd(fr, FALSE, Undefined)

\* node.peerStore.get rejects
DiscoveryPeerStoreRejects(fr) ==
    /\ BagIn(fr, discovering) /\ fr.at = "peerStore.get"
    /\ DiscoveryEnd(fr, TRUE, PeerStoreError)

\* node.dial(ma) resolves
DiscoveryDialResolves(fr) ==
    /\ BagIn(fr, discovering) /\ fr.at = "dial"
    /\ DiscoveryEnd(fr, FALSE, Undefined)

\* node.dial(ma) rejects
DiscoveryDialRejects(fr) ==
    /\ BagIn(fr, discovering) /\ fr.at = "dial"
    /\ DiscoveryEnd(fr, TRUE, DialError)

Discovery == \E p \in Neighbours : DiscoveryEvent(p)

DiscoveryStep ==
    \E fr \in BagToSet(discovering) :
        \/ \E addrs \in AddrLists : DiscoveryPeerStoreResolves(fr, addrs)
        \/ DiscoveryPeerStoreRejects(fr)
        \/ DiscoveryDialResolves(fr)
        \/ DiscoveryDialRejects(fr)

(***************************************************************************)
(* The peer:connect listener.                                              *)
(***************************************************************************)
\* the record the index.js listener stores once the peer store has answered
ConnectedRecord(p, addrs) == [lastError |-> Undefined, id |-> p, address |-> addrs,
                              isLocal |-> FALSE, status |-> "connected",
                              connectionAttempts |-> UndefinedNum]

\* the event arrives: connectedPeers.add(peerId); index.js goes on to
\* await node.peerStore.get(evt.detail), part_000 is done
ConnectEvent(p) ==
    /\ connectedPeers' = connectedPeers \cup {p}
    /\ IF build = "index.js"
       THEN /\ PendingCount < MaxPending
            /\ connecting' = connecting (+) SetToBag({p})
       ELSE UNCHANGED connecting
    /\ obs' = [peerId |-> p, op |-> "peer:connect"]
    /\ UNCHANGED <<dialVars, build, networkFiles, networkNodes, heap, nodeFiles, sharedDir,
                   discovering, sharing>>

\* ConnectPeerStoreResolves with  files: new Set()  for every record
ConnectStoresNewSet(p, addrs) ==
    /\ BagIn(p, connecting)
    /\ LET o == NewRef(heap)
           nn == MapSet(networkNodes, p, o)
       IN  /\ networkNodes' = nn
           /\ heap' = Collect(MapSet(heap, o, ConnectedRecord(p, addrs)), nn, discovering)
           /\ nodeFiles' = MapSet(nodeFiles, p, {})
    /\ connecting' = connecting (-) SetToBag({p})
    /\ obs' = [peerId |-> p, op |-> "peer:connect done", failed |-> FALSE]
    /\ UNCHANGED <<dialVars, build, networkFiles, connectedPeers, sharedDir, discovering, sharing>>

\* node.peerStore.get resolves: networkNodes.set(peerId, {..., status: 'connected'})
ConnectPeerStoreResolves(p, addrs) ==
    /\ BagIn(p, connecting)
    /\ LET o == NewRef(heap)
           nn == MapSet(networkNodes, p, o)
       IN  /\ networkNodes' = nn
           /\ heap' = Collect(MapSet(heap, o, ConnectedRecord(p, addrs)), nn, discovering)
           /\ nodeFiles' = IF p \in DOMAIN networkNodes THEN nodeFiles
                           ELSE MapSet(nodeFiles, p, {})
    /\ connecting' = connecting (-) SetToBag({p})
    /\ obs' = [peerId |-> p, op |-> "peer:connect done", failed |-> FALSE]
    /\ UNCHANGED <<dialVars, build, networkFiles, connectedPeers, sharedDir, discovering, sharing>>

\* node.peerStore.get rejects: the catch block only logs
ConnectPeerStoreRejects(p) ==
    /\ BagIn(p, connecting)
    /\ connecting' = connecting (-) SetToBag({p})
    /\ obs' = [peerId |-> p, op |-> "peer:connect done", failed |-> TRUE]
    /\ UNCHANGED <<dialVars, build, networkFiles, networkNodes, heap, nodeFiles, connectedPeers,
                   sharedDir, discovering, sharing>>

Connect == \E p \in Neighbours : ConnectEvent(p)

ConnectStep ==
    \E p \in BagToSet(connecting) :
        \/ \E addrs \in AddrLists : ConnectPeerStoreResolves(p, addrs)
        \/ ConnectPeerStoreRejects(p)

(***************************************************************************)
(* Events with the node's own id, and the end of a connection.             *)
(***************************************************************************)
\* the listeners do not test the id of the event: an event with the node's
\* own id runs the same code
SelfDiscovery == DiscoveryEvent(LocalId)

SelfConnect == ConnectEvent(LocalId)

\* the transport closes the connection to p: the node registers no listener
\* for 'peer:disconnect', so no code runs
Disconnect(p) ==
    /\ p \in connectedPeers
    /\ obs' = [peerId |-> p, op |-> "peer:disconnect"]
    /\ UNCHANGED <<dialVars, nodeVars>>

Disconnected == \E p \in PeerIds : Disconnect(p)

\* discovery reports any peer, the node itself included
AnyDiscovery == \E p \in PeerIds : DiscoveryEvent(p)

(***************************************************************************)
(* POST /share.                                                            *)
(***************************************************************************)
\* no file part in the upload: 400
ShareNoFile ==
    /\ obs' = [status |-> 400, op |-> "POST /share", error |-> "No file uploaded"]
    /\ UNCHANGED <<dialVars, nodeVars>>

\* ShareBegin without nodeInfo.files.add(req.file.filename)
ShareBeginWithoutAdd(filename, size, now) ==
    /\ PendingCount < MaxPending
    /\ LET fileInfo == [type |-> "file-available", filename |-> filename, size |-> size,
                        timestamp |-> now, nodeId |-> LocalId]
       IN  /\ sharedDir' = sharedDir \cup {filename}
           /\ sharing' = sharing (+) SetToBag({[fileInfo |-> fileInfo, emitted |-> FALSE]})
           /\ obs' = [op |-> "publish", fileInfo |-> fileInfo]
    /\ UNCHANGED <<dialVars, build, networkFiles, networkNodes, heap, nodeFiles,
                   connectedPeers, discovering, connecting>>

\* multer has stored the upload in ./shared; the handler up to
\* await node.services.pubsub.publish(...)
ShareBegin(filename, size, now) ==
    /\ PendingCount < MaxPending
    /\ LET fileInfo == [type |-> "file-available", filename |-> filename, size |-> size,
                        timestamp |-> now, nodeId |-> LocalId]
       IN  /\ sharedDir' = sharedDir \cup {filename}
           /\ nodeFiles' = AddFileToNode(nodeFiles, LocalId, filename)
           /\ sharing' = sharing (+) SetToBag({[fileInfo |-> fileInfo, emitted |-> FALSE]})
           /\ obs' = [op |-> "publish", fileInfo |-> fileInfo]
    /\ UNCHANGED <<dialVars, build, networkFiles, networkNodes, heap, connectedPeers,
                   discovering, connecting>>

\* emitSelf: while publish runs, gossipsub hands the message to the node's own
\* subscription (part_000 only)
ShareEmitSelf(fr) ==
    /\ BagIn(fr, sharing) /\ ~fr.emitted /\ EmitSelf
    /\ HostCount(networkFiles) < MaxHosts
    /\ LET msg == [from |-> LocalId, data |-> JSONstringify(fr.fileInfo)]
       IN  /\ networkFiles' = HandleFiles(networkFiles, msg)
           /\ nodeFiles' = HandleNodeFiles(nodeFiles, msg)
           /\ obs' = [msg |-> msg, op |-> "file-share", outcome |-> HandlerOutcome(msg)]
    /\ sharing' = (sharing (-) SetToBag({fr})) (+) SetToBag({[fr EXCEPT !.emitted = TRUE]})
    /\ UNCHANGED <<dialVars, build, networkNodes, heap, connectedPeers, sharedDir,
                   discovering, connecting>>

\* publish resolves: 200
SharePublishResolves(fr) ==
    /\ BagIn(fr, sharing) /\ (EmitSelf => fr.emitted)
    /\ sharing' = sharing (-) SetToBag({fr})
    /\ obs' = [status |-> 200, op |-> "POST /share", fileInfo |-> fr.fileInfo]
    /\ UNCHANGED <<dialVars, build, networkFiles, networkNodes, heap, nodeFiles, connectedPeers,
                   sharedDir, discovering, connecting>>

\* publish rejects: the catch block answers 500
SharePublishRejects(fr) ==
    /\ BagIn(fr, sharing)
    /\ sharing' = sharing (-) SetToBag({fr})
    /\ obs' = [status |-> 500, op |-> "POST /share", error |-> "Failed to announce file",
               fileInfo |-> fr.fileInfo]
    /\ UNCHANGED <<dialVars, build, networkFiles, networkNodes, heap, nodeFiles, connectedPeers,
                   sharedDir, discovering, connecting>>

Share ==
    \/ ShareNoFile
    \/ \E f \in Filenames, now \in Timestamps : ShareBegin(f, FileSize(f), now)

ShareStep ==
    \E fr \in BagToSet(sharing) :
        \/ ShareEmitSelf(fr)
        \/ SharePublishResolves(fr)
        \/ SharePublishRejects(fr)

(***************************************************************************)
(* GET /network-status.                                                    *)
(***************************************************************************)
\* the nodes array of the response
NodesInfo == { [id |-> id, files |-> nodeFiles[id],
                address |-> heap[networkNodes[id]].address, isLocal |-> (id = LocalId),
                isConnected |-> (id \in connectedPeers)] : id \in DOMAIN networkNodes }

NetworkStatus ==
    /\ obs' = [connectedPeers |-> connectedPeers, status |-> 200,
               op |-> "GET /network-status", nodes |-> NodesInfo,
               currentNode |-> LocalId]
    /\ UNCHANGED <<dialVars, nodeVars>>

(***************************************************************************)
(* GET /download/:nodeId/:filename.                                        *)
(***************************************************************************)
\* fs.existsSync(path.join(sharedDir, filename))
ExistsSync(filename) == filename \in sharedDir

\* DownloadResponse without the test of connectedPeers
ResponseIgnoringConnection(targetNodeId, filename) ==
    IF ~(filename \in sharedDir)
    THEN [status |-> 404, file |-> "", error |-> "File not found"]
    ELSE [status |-> 200, file |-> filename, error |-> ""]

\* the response: [status, error] or [status, file], file the name in ./shared
\* that res.download sends
DownloadResponse(targetNodeId, filename) ==
    IF targetNodeId = LocalId
    THEN IF ~ExistsSync(filename)
         THEN [status |-> 404, file |-> "", error |-> "File not found"]
         ELSE [status |-> 200, file |-> filename, error |-> ""]
    ELSE IF targetNodeId \notin connectedPeers
         THEN [status |-> 404, file |-> "", error |-> "Node not connected"]
         ELSE IF ~ExistsSync(filename)
              THEN [status |-> 404, file |-> "", error |-> "File not found"]
              ELSE [status |-> 200, file |-> filename, error |-> ""]

Download(targetNodeId, filename) ==
    /\ obs' = [filename |-> filename, nodeId |-> targetNodeId, op |-> "GET /download",
               res |-> DownloadResponse(targetNodeId, filename)]
    /\ UNCHANGED <<dialVars, nodeVars>>

DownloadRequest == \E t \in PeerIds, f \in Filenames : Download(t, f)

(***************************************************************************)
(* dialWithRetry(peerId, addresses, maxRetries = 5).                       *)
(*                                                                         *)
(* A multiaddr is the sequence of the parts of its string form:            *)
(* "/ip4/10.0.0.1/tcp/9001" is <<"ip4", "10.0.0.1", "tcp", "9001">>.       *)
(***************************************************************************)
\* the default of the parameter maxRetries
DefaultMaxRetries == 5
\* 1000 * Math.pow(2, i), Math.random() * 1000 and the cap 30000
BackoffBase == 1000
JitterRange == 1000
BackoffCap == 30000

\* the largest maxRetries a caller passes, besides the default
MaxRetries == 3
\* the longest list of addresses a caller passes
MaxAddrs == 2
\* the maxRetries of a call that is long enough to wait the capped delay
LongRetries == 8

TcpAddr == <<"ip4", "10.0.0.1", "tcp", "9001">>
WsAddr == <<"dns4", "relay.test", "ws", "p2p", "QmRelay">>
WebrtcAddr == <<"ip4", "10.0.0.1", "udp", "9002", "webrtc", "certhash", "uEi">>
QuicAddr == <<"ip4", "10.0.0.1", "udp", "9003", "quic-v1">>
Multiaddrs == {TcpAddr, WsAddr, WebrtcAddr, QuicAddr}

\* the lists of at most n multiaddrs
AddrSeqs(n) == UNION {[1..m -> Multiaddrs] : m \in 0..n}

\* the values of Math.random() * 1000 the model draws, rounded down
Jitters == {0, JitterRange - 1}

\* the errors node.dial rejects with
DialErrors == {"ECONNREFUSED", "ETIMEDOUT"}
\* the inner catch block reads ma, which is declared in the try block and out
\* of scope there: evaluating ma.toString() throws this
ReferenceError == "ReferenceError: ma is not defined"

\* ma.toString().includes('/' + proto + '/')
Includes(ma, proto) == \E j \in 1..(Len(ma) - 1) : ma[j] = proto

\* ma.encapsulate('/ws')
Encapsulate(ma, proto) == Append(ma, proto)

\* one of the three if statements of the try block dials
HasHint(ma) == Includes(ma, "tcp") \/ Includes(ma, "ws") \/ Includes(ma, "webrtc")

\* the multiaddr handed to node.dial for ma
DialTarget(ma) ==
    IF Includes(ma, "tcp") THEN ma
    ELSE IF Includes(ma, "ws") THEN Encapsulate(ma, "ws")
    ELSE ma

\* 2^n
RECURSIVE Pow2(_)
Pow2(n) == IF n = 0 THEN 1 ELSE 2 * Pow2(n - 1)

Min(a, b) == IF a <= b THEN a ELSE b

\* BackoffDelay without the cap
BackoffUncapped(round, jitter) == BackoffBase * Pow2(round) + jitter

\* Math.min(1000 * Math.pow(2, i) + Math.random() * 1000, 30000)
BackoffDelay(round, jitter) == Min(BackoffBase * Pow2(round) + jitter, BackoffCap)

\* IsLastRound off by one: i === maxRetries
IsPastLastRound(round, n) == round = n

\* if (i === maxRetries - 1) throw err
IsLastRound(round, n) == round = n - 1

\* the call starts: let lastError, i = 0
DialInit ==
    /\ NodeInit
    /\ build = "index.js"
    /\ obs = [op |-> "start"]
    /\ maxRetries \in 0..MaxRetries \cup {DefaultMaxRetries}
    /\ addresses \in AddrSeqs(MaxAddrs)
    /\ pc = "for"
    /\ i = 0
    /\ k = 0
    /\ lastError = Undefined
    /\ caught = Undefined
    /\ result = Undefined
    /\ delay = 0
    /\ rounds = 0
    /\ waits = 0
    /\ dials = << >>

\* a call with enough rounds for the delay to reach the cap
BackoffInit ==
    /\ NodeInit
    /\ build = "index.js"
    /\ obs = [op |-> "start"]
    /\ maxRetries = LongRetries
    /\ addresses \in AddrSeqs(1)
    /\ pc = "for"
    /\ i = 0
    /\ k = 0
    /\ lastError = Undefined
    /\ caught = Undefined
    /\ result = Undefined
    /\ delay = 0
    /\ rounds = 0
    /\ waits = 0
    /\ dials = << >>

\* the test i < maxRetries of the outer loop: enter the body, or leave the
\* loop and return undefined
LoopTest ==
    /\ pc = "for"
    /\ IF i < maxRetries
       THEN /\ pc' = "of"
            /\ k' = 1
            /\ rounds' = rounds + 1
       ELSE /\ pc' = "resolved"
            /\ UNCHANGED <<k, rounds>>
    /\ UNCHANGED <<nodeVars, obs, maxRetries, addresses, i, lastError, caught, result,
                   delay, waits, dials>>

\* the next address of the inner loop: dial it when it carries a hint, skip
\* it when not; after the last address, throw lastError
NextAddress ==
    /\ pc = "of"
    /\ IF k > Len(addresses)
       THEN /\ caught' = lastError
            /\ pc' = "catch"
            /\ UNCHANGED k
       ELSE IF HasHint(addresses[k])
       THEN /\ pc' = "dial"
            /\ UNCHANGED <<k, caught>>
       ELSE /\ k' = k + 1
            /\ UNCHANGED <<pc, caught>>
    /\ UNCHANGED <<nodeVars, obs, maxRetries, addresses, i, lastError, result, delay,
                   rounds, waits, dials>>

\* await node.dial(...) resolves: return
DialResolves ==
    /\ pc = "dial"
    /\ dials' = Append(dials, [err |-> Undefined, ma |-> DialTarget(addresses[k]),
                               ok |-> TRUE])
    /\ pc' = "resolved"
    /\ UNCHANGED <<nodeVars, obs, maxRetries, addresses, i, k, lastError, caught, result,
                   delay, rounds, waits>>

\* await node.dial(...) rejects with err: the inner catch block sets
\* lastError = err, then its console.warn throws the ReferenceError, which
\* leaves the inner loop and lands in the outer catch block
DialRejects(err) ==
    /\ pc = "dial"
    /\ dials' = Append(dials, [err |-> err, ma |-> DialTarget(addresses[k]),
                               ok |-> FALSE])
    /\ lastError' = err
    /\ caught' = ReferenceError
    /\ pc' = "catch"
    /\ UNCHANGED <<nodeVars, obs, maxRetries, addresses, i, k, result, delay, rounds,
                   waits>>

\* the outer catch block: rethrow in the last round, else start the backoff
RoundFailed(jitter) ==
    /\ pc = "catch"
    /\ IF IsLastRound(i, maxRetries)
       THEN /\ result' = caught
            /\ pc' = "rejected"
            /\ UNCHANGED <<delay, waits>>
       ELSE /\ delay' = BackoffDelay(i, jitter)
            /\ waits' = waits + 1
            /\ pc' = "sleep"
            /\ UNCHANGED result
    /\ UNCHANGED <<nodeVars, obs, maxRetries, addresses, i, k, lastError, caught,
                   rounds, dials>>

\* the timer of the backoff fires: i++
BackoffElapsed ==
    /\ pc = "sleep"
    /\ i' = i + 1
    /\ pc' = "for"
    /\ UNCHANGED <<nodeVars, obs, maxRetries, addresses, k, lastError, caught, result,
                   delay, rounds, waits, dials>>

DialNext ==
    \/ LoopTest
    \/ NextAddress
    \/ DialResolves
    \/ \E err \in DialErrors : DialRejects(err)
    \/ \E jitter \in Jitters : RoundFailed(jitter)
    \/ BackoffElapsed

SpecDial == DialInit /\ [][DialNext]_vars

SpecBackoff == BackoffInit /\ [][DialNext]_vars

\* the event loop runs every continuation that is ready: a settled dial, an
\* elapsed timer
FairSpecDial == SpecDial /\ WF_vars(DialNext)

(***************************************************************************)
(* Specifications.  Spec composes every handler.  The others compose the   *)
(* handlers of one part of the node and leave the remaining events of the  *)
(* environment out, which keeps each of them small enough to explore with  *)
(* richer inputs.                                                          *)
(***************************************************************************)
Next ==
    \/ Announcement
    \/ Discovery
    \/ DiscoveryStep
    \/ Connect
    \/ ConnectStep
    \/ Share
    \/ ShareStep
    \/ NetworkStatus
    \/ DownloadRequest

Spec == Init /\ [][Next]_vars

\* the catalog: announcements of every shape arrive at a node whose directory
\* holds the neighbours in known, each discovered with no address to dial
GossipInit ==
    /\ build \in Builds
    /\ networkFiles = << >>
    /\ \E known \in SUBSET Neighbours :
          LET ids == <<LocalId>> \o SetToSeq(known)
          IN  /\ heap = [o \in 1..Len(ids) |->
                           IF o = 1 THEN LocalRecord ELSE DiscoveredRecord(ids[o])]
              /\ networkNodes = [p \in {LocalId} \cup known |->
                                   CHOOSE o \in 1..Len(ids) : ids[o] = p]
              /\ nodeFiles = [p \in {LocalId} \cup known |-> {}]
    /\ connectedPeers = {}
    /\ sharedDir = {}
    /\ discovering = EmptyBag
    /\ connecting = EmptyBag
    /\ sharing = EmptyBag
    /\ obs = [op |-> "start"]
    /\ NoDial

GossipNext == Announcement

SpecGossip == GossipInit /\ [][GossipNext]_vars

\* the HTTP side: uploads, status and download requests, while neighbours
\* connect and announce their files
HttpNext ==
    \/ NeighbourAnnouncement
    \/ Connect
    \/ ConnectStep
    \/ Share
    \/ ShareStep
    \/ NetworkStatus
    \/ DownloadRequest

SpecHttp == Init /\ [][HttpNext]_vars

\* the directory: discovery and connection events in any interleaving, also
\* with the node's own id
DirectoryNext ==
    \/ Discovery
    \/ SelfDiscovery
    \/ DiscoveryStep
    \/ Connect
    \/ SelfConnect
    \/ ConnectStep

SpecDirectory == Init /\ [][DirectoryNext]_vars

\* discovery alone, reporting any peer id, repeated and overlapping
DiscoveryNext ==
    \/ AnyDiscovery
    \/ DiscoveryStep

SpecDiscovery == Init /\ [][DiscoveryNext]_vars

\* the neighbours are discovered, dialed and connect
PeersNext ==
    \/ Discovery
    \/ DiscoveryStep
    \/ Connect
    \/ ConnectStep

SpecPeers == Init /\ [][PeersNext]_vars

\* connections open and close while the HTTP reads are served
ConnectionNext ==
    \/ Connect
    \/ ConnectStep
    \/ Disconnected
    \/ NetworkStatus
    \/ DownloadRequest

SpecConnection == Init /\ [][ConnectionNext]_vars

\* the directory and the catalog together, in the build whose connect listener
\* stores records: every handler that writes them, and the HTTP reads.  The
\* peer store knows one address of a neighbour and the neighbour answers, so
\* that every discovery dials and the dial succeeds (SpecPeers has the failed
\* attempts), and the user uploads one file.
GrowthInit == Init /\ build = "index.js"

KnownAddrs == <<"/ip4/10.0.0.1/tcp/9001">>

DialedDiscoveryStep ==
    \E fr \in BagToSet(discovering) :
        \/ DiscoveryPeerStoreResolves(fr, KnownAddrs)
        \/ DiscoveryDialResolves(fr)

StoredConnectStep ==
    \E p \in BagToSet(connecting) : ConnectPeerStoreResolves(p, KnownAddrs)

ShareOne == ShareBegin("a.txt", FileSize("a.txt"), FirstTime)

AnsweredShareStep ==
    \E fr \in BagToSet(sharing) :
        \/ SharePublishResolves(fr)
        \/ SharePublishRejects(fr)

GrowthNext ==
    \/ NeighbourAnnouncement
    \/ Discovery
    \/ DialedDiscoveryStep
    \/ Connect
    \/ StoredConnectStep
    \/ ShareOne
    \/ AnsweredShareStep
    \/ NetworkStatus
    \/ DownloadRequest

SpecGrowth == GrowthInit /\ [][GrowthNext]_vars

(***************************************************************************)
(* The claims.                                                             *)
(***************************************************************************)
\* the file announcements of every sender
FileMessages == [from : PeerIds, data : {JSONstringify(o) : o \in FileInfos}]

\* C1 (as claimed): after any sequence of announcements a peer appears at most
\* once among the hosting peers of a file, so that handling an announcement
\* twice leaves the same hosting peers as handling it once.
HostsUnique ==
    \A f \in DOMAIN networkFiles :
        \A a, b \in 1..Len(networkFiles[f].peers) :
            networkFiles[f].peers[a].peerId = networkFiles[f].peers[b].peerId => a = b

\* C2 (as claimed): once a catalog entry exists, no step changes its size or
\* its origin node id.
FirstWriterWins ==
    [][\A f \in DOMAIN networkFiles :
          /\ f \in DOMAIN networkFiles'
          /\ networkFiles'[f].size = networkFiles[f].size
          /\ networkFiles'[f].nodeId = networkFiles[f].nodeId]_vars

\* C3 (as claimed): from every catalog the node reaches, two announcements of
\* one filename by different peers give the same catalog and the same files
\* Sets in either order.
CommutativeMerge ==
    \A A, B \in FileMessages :
        (A.data.filename = B.data.filename /\ A.from # B.from) =>
            /\ HandleFiles(HandleFiles(networkFiles, A), B)
                 = HandleFiles(HandleFiles(networkFiles, B), A)
            /\ HandleNodeFiles(HandleNodeFiles(nodeFiles, A), B)
                 = HandleNodeFiles(HandleNodeFiles(nodeFiles, B), A)

\* the files POST /share has handed to publish and not yet answered for
Publishing == {fr.fileInfo.filename : fr \in BagToSet(sharing)}

\* C4 (as claimed): while the announcement of f is with publish, f is among
\* the local node's files in GET /network-status and f is in the catalog.
SelfConsistency ==
    \A f \in Publishing :
        /\ \E n \in NodesInfo : n.id = LocalId /\ f \in n.files
        /\ f \in DOMAIN networkFiles

\* a payload the claim calls rejected: no JSON, or JSON whose type is not
\* 'file-available'
Rejected(msg) == msg.data.kind # "object" \/ msg.data.type # "file-available"

\* C5: a step of the subscription handler on a rejected payload ends in the
\* handler (caught or ignored) and leaves networkFiles, networkNodes with
\* every files Set, and connectedPeers as they were.
RejectedChangesNothing ==
    [][(obs'.op = "file-share" /\ Rejected(obs'.msg)) =>
          /\ obs'.outcome \in {"caught", "ignored"}
          /\ UNCHANGED <<networkFiles, networkNodes, heap, nodeFiles, connectedPeers>>]_vars

\* C5 witness: a payload that is no JSON was handled, sent by a peer with a
\* record, at a node whose catalog is not empty.
RejectedHandled ==
    /\ obs.op = "file-share"
    /\ obs.msg.data.kind = "bytes"
    /\ obs.msg.from \in DOMAIN networkNodes
    /\ networkFiles # << >>

\* C6: a download request for a remote node that is not connected is answered
\* 404 'Node not connected', whatever the file, and changes nothing.
NotConnectedClassification ==
    [][(/\ obs'.op = "GET /download"
        /\ obs'.nodeId # LocalId
        /\ obs'.nodeId \notin connectedPeers) =>
          /\ obs'.res.status = 404
          /\ obs'.res.error = "Node not connected"
          /\ UNCHANGED <<nodeVars, dialVars>>]_vars

\* C6 witness: such a request was answered for a file that is in ./shared and
\* in the catalog.
NotConnectedAnswered ==
    /\ obs.op = "GET /download"
    /\ obs.nodeId # LocalId
    /\ obs.nodeId \notin connectedPeers
    /\ obs.filename \in sharedDir
    /\ obs.filename \in DOMAIN networkFiles
    /\ obs.res.status = 404

\* p is recorded as hosting f: in its files Set or among the hosting peers
KnownHost(p, f) ==
    \/ p \in DOMAIN nodeFiles /\ f \in nodeFiles[p]
    \/ \E j \in 1..Len(PeersOf(networkFiles, f)) : PeersOf(networkFiles, f)[j].peerId = p

\* C7 (as claimed): a download from a remote node succeeds only if the node
\* is connected and is a known host of the file.
KnownHostOnly ==
    (obs.op = "GET /download" /\ obs.nodeId # LocalId /\ obs.res.status = 200) =>
        /\ obs.nodeId \in connectedPeers
        /\ KnownHost(obs.nodeId, obs.filename)

\* the call has settled
Settled == pc \in {"resolved", "rejected"}

\* C8: with maxRetries = n >= 1 and a non-empty list, there are never more
\* than n rounds, a wait only between two rounds, a call that rejects has
\* made n rounds and n - 1 waits, a call that resolves has seen a dial
\* succeed, and the call settles.
RetryBound ==
    /\ []((maxRetries >= 1 /\ addresses # << >>) =>
            /\ rounds <= maxRetries
            /\ waits <= rounds
            /\ (pc \in {"of", "dial", "catch", "rejected"} => waits = rounds - 1)
            /\ (pc = "rejected" => rounds = maxRetries /\ waits = maxRetries - 1)
            /\ (pc = "resolved" => dials # << >> /\ dials[Len(dials)].ok))
    /\ <>Settled

\* C8 witness: three rounds, each with a failed dial, two waits, rejected.
RetryExhausted ==
    /\ pc = "rejected"
    /\ maxRetries = 3
    /\ addresses # << >>
    /\ Len(dials) = 3
    /\ \A j \in 1..Len(dials) : ~dials[j].ok
    /\ waits = 2

\* C9 (as claimed): a call that rejects after a failed dial rejects with the
\* error of the most recent failed dial.
LastErrorReported ==
    (pc = "rejected" /\ dials # << >>) => result = dials[Len(dials)].err

\* C10: a POST /share whose publish fails is answered 500 'Failed to announce
\* file' with the file still in the local node's files Set; neither of its
\* two steps changes another node's record or files Set, or connectedPeers.
PublishFailureKeepsLocalState ==
    [][/\ (obs'.op = "POST /share" /\ obs'.status = 500) =>
            /\ obs'.error = "Failed to announce file"
            /\ LocalId \in DOMAIN nodeFiles'
            /\ obs'.fileInfo.filename \in nodeFiles'[LocalId]
            /\ UNCHANGED <<networkNodes, heap, nodeFiles, connectedPeers>>
       /\ obs'.op = "publish" =>
            /\ obs'.fileInfo.filename \in nodeFiles'[LocalId]
            /\ UNCHANGED <<networkNodes, heap, connectedPeers>>
            /\ DOMAIN nodeFiles' = DOMAIN nodeFiles
            /\ \A p \in DOMAIN nodeFiles \ {LocalId} : nodeFiles'[p] = nodeFiles[p]]_vars

\* C10 witness: a publish failed at a node that has a connected neighbour
\* with a record.
PublishFailed ==
    /\ obs.op = "POST /share"
    /\ obs.status = 500
    /\ connectedPeers # {}
    /\ \E p \in Neighbours : p \in DOMAIN networkNodes

\* C11 (as claimed): networkNodes holds exactly one record with isLocal = true,
\* the one under the node's own id, whatever events arrive.
SingleLocalRecord ==
    /\ LocalId \in DOMAIN networkNodes
    /\ heap[networkNodes[LocalId]].isLocal
    /\ \A p \in DOMAIN networkNodes : heap[networkNodes[p]].isLocal => p = LocalId

\* C12: after any sequence of peer:discovery events every record's id is its
\* key in networkNodes, so that no two records carry the same id.
DirectoryUnique ==
    /\ \A p \in DOMAIN networkNodes : heap[networkNodes[p]].id = p
    /\ \A p, q \in DOMAIN networkNodes :
          heap[networkNodes[p]].id = heap[networkNodes[q]].id => p = q

\* C12 witness: two remote peers have records, one after a failed attempt,
\* while two discovery handlers are suspended.
TwoPeersDiscovered ==
    /\ RemotePeers \subseteq DOMAIN networkNodes
    /\ \E p \in RemotePeers : heap[networkNodes[p]].connectionAttempts = Num(1)
    /\ BagCardinality(discovering) = 2

\* C13 (as claimed): when the discovery handler ends after a dial that
\* succeeded, for a connected peer whose record the connect handler has
\* stored, the record in networkNodes still has status 'connected'.
DialEndsConnected ==
    [][(/\ build = "index.js"
        /\ obs'.op = "peer:discovery done"
        /\ ~obs'.failed
        /\ obs'.peerId \in connectedPeers
        /\ \E fr \in BagToSet(discovering) :
              /\ fr.peerId = obs'.peerId
              /\ fr.at = "dial"
              /\ discovering' = discovering (-) SetToBag({fr})
        /\ heap[networkNodes[obs'.peerId]].status = "connected") =>
          heap'[networkNodes'[obs'.peerId]].status = "connected"]_vars

\* the dials to p the discovery handlers are waiting for
DialsInFlight(p) ==
    {fr \in BagToSet(discovering) : fr.peerId = p /\ fr.at = "dial"}

\* C14 (as claimed): at most one dial to a peer is in flight at any time.
OneDialPerPeer ==
    \A p \in PeerIds :
        \A fr \in DialsInFlight(p) :
            DialsInFlight(p) = {fr} /\ CopiesIn(fr, discovering) = 1

\* C15 (as claimed): the connectionAttempts of every remote record is a
\* number, and it is 0 in a record of status 'connected'.
AttemptsIsCounter ==
    \A p \in DOMAIN networkNodes \ {LocalId} :
        /\ heap[networkNodes[p]].connectionAttempts.t = "number"
        /\ heap[networkNodes[p]].connectionAttempts.v >= 0
        /\ heap[networkNodes[p]].status = "connected" =>
               heap[networkNodes[p]].connectionAttempts = Num(0)


\* C16 (as claimed): after the transport has reported the end of the
\* connection to p, p is not in connectedPeers.
DisconnectReflected ==
    [][obs'.op = "peer:disconnect" => obs'.peerId \notin connectedPeers']_vars

\* C17 (as claimed): a round of dialWithRetry is over, in the outer catch
\* block, only after every address with a transport hint has been dialed.
RoundTriesEveryAddress ==
    pc = "catch" => \A j \in 1..Len(addresses) : HasHint(addresses[j]) => j <= k

\* every integer jitter
AllJitters == 0..(JitterRange - 1)

\* C18: the delay after a failed round is at most the cap and not smaller
\* than the delay after the round before, for the jitters drawn and for every
\* integer jitter of the round at hand and of the next.
BackoffCappedMonotone ==
    /\ [](pc = "catch" =>
            \A j \in AllJitters :
                /\ BackoffDelay(i, j) <= BackoffCap
                /\ BackoffDelay(i, j) <= BackoffDelay(i + 1, 0)
                /\ BackoffDelay(i + 1, 0) <= BackoffDelay(i + 1, j))
    /\ [][(pc = "catch" /\ pc' = "sleep") =>
            /\ delay' <= BackoffCap
            /\ delay <= delay']_vars

\* C18 witness: the call waits the capped delay after its sixth failed round.
BackoffCapReached ==
    /\ pc = "sleep"
    /\ waits = 6
    /\ delay = BackoffCap


\* C19: no step removes a key from networkNodes, and after every step the
\* files Set of each peer id holds at least what it held before.
DirectoryGrows ==
    [][/\ DOMAIN networkNodes \subseteq DOMAIN networkNodes'
       /\ \A p \in DOMAIN networkNodes :
             /\ p \in DOMAIN nodeFiles'
             /\ nodeFiles[p] \subseteq nodeFiles'[p]]_vars

\* C19 witness: the connect listener has replaced the record of a peer whose
\* files Set is not empty, while a discovery handler still holds the old one.
ConnectReplacedRecord ==
    /\ obs.op = "peer:connect done"
    /\ ~obs.failed
    /\ nodeFiles[obs.peerId] # {}
    /\ heap[networkNodes[obs.peerId]].status = "connected"
    /\ \E fr \in BagToSet(discovering) :
          fr.peerId = obs.peerId /\ fr.peerInfo # networkNodes[obs.peerId]

\* C20 (as claimed): when no handler is suspended, every hosting peer of a
\* file that has a record in networkNodes has the file in its files Set.
CatalogAgreesWithDirectory ==
    PendingCount = 0 =>
        \A f \in DOMAIN networkFiles :
            \A j \in 1..Len(networkFiles[f].peers) :
                networkFiles[f].peers[j].peerId \in DOMAIN networkNodes =>
                    f \in nodeFiles[networkFiles[f].peers[j].peerId]


\* C21 (as claimed): when no handler is suspended, every id in connectedPeers
\* is in the nodes list of GET /network-status, with isConnected = true.
ConnectedAreKnown ==
    PendingCount = 0 =>
        \A p \in connectedPeers : \E n \in NodesInfo : n.id = p /\ n.isConnected

\* C22 (as claimed): a call of dialWithRetry that completes without error has
\* made a dial that succeeded, for every maxRetries >= 0 and every list.
SuccessMeansDialed ==
    pc = "resolved" => \E j \in 1..Len(dials) : dials[j].ok

=============================================================================
